---- MODULE Spec2Model ----
(***************************************************************************)
(* Worklog application (beranradek/worklog), frontend core.                *)
(*                                                                         *)
(* Part I  - Session Guard: frontend/src/api/client.ts                     *)
(*           (token storage, refreshAccessToken, fetchAPI, logout).        *)
(* Part II - Worklog Reconciler: the Worklog component                     *)
(*           (saveWorklog, addEntry, updateEntry, deleteEntry, logToJira,  *)
(*           prefillFromPrevious, mergeEntries).                           *)
(*                                                                         *)
(* JavaScript runs handlers to completion between await points, so every   *)
(* action below is one synchronous stretch of a handler: from an event or  *)
(* a settled promise to the next await or to the end of the handler.       *)
(* Strings are sequences of one-character strings so that trimming,        *)
(* joining and time formatting are computed as the code computes them.     *)
(***************************************************************************)
EXTENDS Integers, Sequences, FiniteSets, TLC

(***************************************************************************)
(* Bounds                                                                  *)
(***************************************************************************)
\* number of fetchAPI calls the page makes in one run
MaxReq == 2

\* number of user actions (add, edit, delete, log, prefill) in one run
MaxActions == 2

\* number of date changes (previous day, next day, today) in one run
MaxNav == 2

Req == 1..MaxReq

(***************************************************************************)
(* Part I - Session Guard state                                            *)
(***************************************************************************)
VARIABLES
  accessToken,        \* localStorage worklog_access_token, 0 = absent
  refreshToken,       \* localStorage worklog_refresh_token, 0 = absent
  user,               \* localStorage worklog_user, 0 = absent
  isRefreshing,       \* module flag isRefreshing
  refreshSubscribers, \* module list refreshSubscribers (callbacks, by request)
  req,                \* the fetchAPI invocations, by request id
  netRefresh,         \* POST /api/auth/refresh calls awaiting their response
  serverTok,          \* last token pair issued by the auth server
  navigated           \* window.location.href = '/' has been assigned

gvars == <<accessToken, refreshToken, user, isRefreshing, refreshSubscribers,
           req, netRefresh, serverTok, navigated>>

(***************************************************************************)
(* Part II - Worklog Reconciler state (React state of the Worklog          *)
(* component and its asynchronous handlers in flight)                      *)
(***************************************************************************)
VARIABLES
  worklog,         \* useState worklog: Null or [date, entries]
  loading,         \* useState loading
  jiraConfig,      \* useState jiraConfig: "null", "configured", "unconfigured"
  loggingEntryId,  \* useState loggingEntryId, 0 = null
  saves,           \* saveWorklog calls awaiting apiClient.saveWorklog
  logs,            \* logToJira calls awaiting apiClient.logToJira
  prefills,        \* prefillFromPrevious calls awaiting apiClient.getWorklog
  nextId,          \* next value generateId returns
  actions,         \* user actions handled so far
  lastToast,       \* titles of the toasts shown by the last handler step
  bulk             \* bulkLogToJira: "idle", "calling" (awaiting the bulk
                   \* endpoint) or "reloading" (awaiting fetchWorklog);
                   \* useState isBulkLogging is bulk # "idle"

wvars == <<worklog, loading, jiraConfig, loggingEntryId, saves, logs, prefills,
           nextId, actions, lastToast, bulk>>

(***************************************************************************)
(* Part III - the selected date, the loads in flight, the remote store     *)
(***************************************************************************)
VARIABLES
  selectedDate,    \* useState selectedDate, as the day of the month
  loads,           \* fetchWorklog calls awaiting apiClient.getWorklog
  remote,          \* rows of worklog_entries the remote store holds, by day
  navs,            \* date changes handled so far
  calc             \* the last call of calculateDuration and its result

nvars == <<selectedDate, loads, remote, navs, calc>>

vars == <<gvars, wvars, nvars>>

\* HTTP outcomes of one fetch: a status, or 0 for a transport failure (fetch throws)
Outcomes == {200, 401, 500, 0}

NewReq ==
  [kind |-> "api", pc |-> "new", tok |-> 0, hdr |-> 0, sends |-> 0,
   refreshes |-> 0, role |-> "none", during |-> 0, got |-> 0,
   result |-> "none", peers |-> {}, error |-> "none"]

\* fetchAPI: the 401 branch is entered after the first fetch only, and only
\* when the request carried an access token
\* mutant: the 401 branch is entered for the answer to the retry as well
NeedsRefresh_Loop(r, status) ==
  r.pc \in {"sent", "retry"} /\ status = 401 /\ r.tok # 0

NeedsRefresh(r, status) ==
  r.pc = "sent" /\ status = 401 /\ r.tok # 0

\* fetchAPI: if (!isRefreshing) - this caller starts the refresh
\* mutant: the flag is ignored, every 401 starts its own refresh
StartsRefresh_NoGate ==
  TRUE

StartsRefresh ==
  ~isRefreshing

\* the request whose refresh call is awaiting its response, 0 if none
RefreshingNow ==
  IF \E q \in Req : req[q].pc = "refreshing"
    THEN CHOOSE q \in Req : req[q].pc = "refreshing"
    ELSE 0

\* result surfaced for the response that fetchAPI finally looks at
ResultOf(status) ==
  CASE status = 200 -> "ok"
    [] status = 401 -> "err401"
    [] status = 500 -> "err"
    [] OTHER -> "neterr"

\* bodies a non-OK response may carry: JSON with a detail field, JSON with a
\* message field, JSON with neither, text that is not JSON
ErrorBodies == {"detail", "message", "neither", "text"}

BodiesOf(status) == IF status \in {401, 500} THEN ErrorBodies ELSE {"none"}

\* what the try block of the !response.ok branch throws: JSON.parse throws a
\* SyntaxError on text, otherwise new Error(detail || message || 'API Error: status')
ThrownInTry(body) ==
  CASE body = "text" -> "SyntaxError"
    [] body = "detail" -> "detail"
    [] body = "message" -> "message"
    [] OTHER -> "status"

\* the catch clause encloses that throw as well: whatever the try block threw
\* is dropped and new Error('API Error: status - errorText') is thrown
SurfacedError(body) ==
  IF ThrownInTry(body) \in {"SyntaxError", "detail", "message", "status"}
    THEN "status+raw"
    ELSE ThrownInTry(body)

\* the Error a settled request rejects with
ErrorOf(status, body) ==
  CASE status = 200 -> "none"
    [] status = 0 -> "transport"
    [] OTHER -> SurfacedError(body)

\* clearAuth(): the three storage keys are removed
\* mutant: the refresh token is left in the storage
ClearAuth_KeepsRefreshToken ==
  /\ accessToken' = 0
  /\ refreshToken' = refreshToken
  /\ user' = 0

ClearAuth ==
  /\ accessToken' = 0
  /\ refreshToken' = 0
  /\ user' = 0

\* apiClient.logout: .finally(() => { clearAuth(); window.location.href = '/' })
\* runs when the logout request settles; any other request leaves the storage
\* mutant: the .finally handler of logout is missing
Settle_NoCleanup(kind) ==
  UNCHANGED <<accessToken, refreshToken, user, navigated>>

Settle(kind) ==
  IF kind = "logout"
    THEN ClearAuth /\ navigated' = TRUE
    ELSE UNCHANGED <<accessToken, refreshToken, user, navigated>>

GuardInit ==
  /\ accessToken = 1
  /\ refreshToken = 1
  /\ user = 1
  /\ isRefreshing = FALSE
  /\ refreshSubscribers = <<>>
  /\ req = [r \in Req |-> NewReq]
  /\ netRefresh = 0
  /\ serverTok = 1
  /\ navigated = FALSE

\* fetchAPI up to its first await: the stored access token is read once and
\* put in the Authorization header, the request is sent
StartRequest(r, kind) ==
  /\ req[r].pc = "new"
  /\ \A q \in Req : q < r => req[q].pc # "new"
  /\ req' = [req EXCEPT ![r] =
       [@ EXCEPT !.kind = kind, !.pc = "sent", !.tok = accessToken,
                 !.hdr = accessToken, !.sends = 1,
                 !.peers = {q \in Req : req[q].pc = "sent"}]]
  /\ UNCHANGED <<accessToken, refreshToken, user, isRefreshing,
                 refreshSubscribers, netRefresh, serverTok, navigated>>

\* the answer to a request does not call for a refresh: response.ok is
\* tested, the request settles with the body or with an Error
Finish(r, status, body) ==
  /\ req[r].pc \in {"sent", "retry"}
  /\ ~NeedsRefresh(req[r], status)
  /\ req' = [req EXCEPT ![r] = [@ EXCEPT !.pc = "done", !.result = ResultOf(status),
                                         !.error = ErrorOf(status, body)]]
  /\ Settle(req[r].kind)
  /\ UNCHANGED <<isRefreshing, refreshSubscribers, netRefresh, serverTok>>

\* refreshAccessToken: if (!refreshToken) return null - guards the network call
\* mutant: the call is sent whether a refresh token is stored or not
HasRefreshToken_Unchecked ==
  TRUE

HasRefreshToken ==
  refreshToken # 0

\* 401, no refresh running, a refresh token is stored: the refresh call is sent
Lead(r) ==
  /\ req[r].pc \in {"sent", "retry"}
  /\ NeedsRefresh(req[r], 401)
  /\ StartsRefresh
  /\ HasRefreshToken
  /\ isRefreshing' = TRUE
  /\ netRefresh' = netRefresh + 1
  /\ req' = [req EXCEPT ![r] =
       [@ EXCEPT !.pc = "refreshing", !.role = "leader", !.refreshes = @ + 1,
                 !.during = RefreshingNow]]
  /\ UNCHANGED <<accessToken, refreshToken, user, refreshSubscribers,
                 serverTok, navigated>>

\* 401, no refresh running, no refresh token stored: refreshAccessToken
\* returns null without a network call, the flag is reset, the subscribers
\* are not called, and the 401 response is surfaced
LeadNoToken(r, body) ==
  /\ req[r].pc \in {"sent", "retry"}
  /\ NeedsRefresh(req[r], 401)
  /\ StartsRefresh
  /\ refreshToken = 0
  /\ isRefreshing' = FALSE
  /\ req' = [req EXCEPT ![r] =
       [@ EXCEPT !.pc = "done", !.role = "nocall", !.refreshes = @ + 1,
                 !.during = RefreshingNow, !.result = "err401",
                 !.error = ErrorOf(401, body)]]
  /\ Settle(req[r].kind)
  /\ UNCHANGED <<refreshSubscribers, netRefresh, serverTok>>

\* 401 while a refresh is running: subscribeTokenRefresh(resolve)
Join(r) ==
  /\ req[r].pc \in {"sent", "retry"}
  /\ NeedsRefresh(req[r], 401)
  /\ ~StartsRefresh
  /\ refreshSubscribers' = Append(refreshSubscribers, r)
  /\ req' = [req EXCEPT ![r] =
       [@ EXCEPT !.pc = "waiting", !.role = "waiter", !.refreshes = @ + 1,
                 !.during = RefreshingNow]]
  /\ UNCHANGED <<accessToken, refreshToken, user, isRefreshing, netRefresh,
                 serverTok, navigated>>

\* onTokenRefreshed(token): every subscriber is called with the token and
\* the list is emptied; each released caller resends with the token
\* mutant: the released callers resend with the header they already had
OnTokenRefreshed_StaleHeader(rq, token) ==
  [q \in Req |->
     IF \E i \in 1..Len(refreshSubscribers) : refreshSubscribers[i] = q
       THEN [rq[q] EXCEPT !.pc = "retry", !.got = token, !.sends = @ + 1]
       ELSE rq[q]]

OnTokenRefreshed(rq, token) ==
  [q \in Req |->
     IF \E i \in 1..Len(refreshSubscribers) : refreshSubscribers[i] = q
       THEN [rq[q] EXCEPT !.pc = "retry", !.hdr = token, !.got = token,
                          !.sends = @ + 1]
       ELSE rq[q]]

\* refreshAccessToken, response.ok: the new triple is stored and the access
\* token returned; fetchAPI resets the flag, releases the subscribers and
\* retries with the new token
RefreshOk(r) ==
  /\ req[r].pc = "refreshing"
  /\ netRefresh' = netRefresh - 1
  /\ serverTok' = serverTok + 1
  /\ accessToken' = serverTok + 1
  /\ refreshToken' = serverTok + 1
  /\ user' = 1
  /\ isRefreshing' = FALSE
  /\ req' = [OnTokenRefreshed(req, serverTok + 1) EXCEPT ![r] =
       [@ EXCEPT !.pc = "retry", !.hdr = serverTok + 1, !.got = serverTok + 1,
                 !.sends = @ + 1]]
  /\ refreshSubscribers' = <<>>
  /\ UNCHANGED navigated

\* refreshAccessToken, transport error or non-OK response: catch -> clearAuth,
\* location.href = '/', return null; fetchAPI resets the flag, newToken is
\* null so onTokenRefreshed is not called and the 401 response is surfaced
RefreshFail(r, body) ==
  /\ req[r].pc = "refreshing"
  /\ netRefresh' = netRefresh - 1
  /\ ClearAuth
  /\ navigated' = TRUE
  /\ isRefreshing' = FALSE
  /\ req' = [req EXCEPT ![r] = [@ EXCEPT !.pc = "done", !.result = "err401",
                                         !.error = ErrorOf(401, body)]]
  /\ UNCHANGED <<refreshSubscribers, serverTok>>

(***************************************************************************)
(* Part II - strings, times and entries                                    *)
(***************************************************************************)
\* the initial useState value of worklog
Null == [null |-> TRUE]

Digits == {"0", "1", "2", "3", "4", "5", "6", "7", "8", "9"}

DigitVal(c) ==
  CASE c = "0" -> 0 [] c = "1" -> 1 [] c = "2" -> 2 [] c = "3" -> 3
    [] c = "4" -> 4 [] c = "5" -> 5 [] c = "6" -> 6 [] c = "7" -> 7
    [] c = "8" -> 8 [] OTHER -> 9

DigitChar(n) ==
  CASE n = 0 -> "0" [] n = 1 -> "1" [] n = 2 -> "2" [] n = 3 -> "3"
    [] n = 4 -> "4" [] n = 5 -> "5" [] n = 6 -> "6" [] n = 7 -> "7"
    [] n = 8 -> "8" [] OTHER -> "9"

\* parseInt(s, 10) of a non-empty digit string
RECURSIVE ParseInt(_)
ParseInt(s) ==
  IF s = <<>> THEN 0
  ELSE 10 * ParseInt(SubSeq(s, 1, Len(s) - 1)) + DigitVal(s[Len(s)])

\* String(n).padStart(2, '0') for 0 <= n <= 99
PadStart2(n) == <<DigitChar(n \div 10), DigitChar(n % 10)>>

AllDigits(s) == \A i \in 1..Len(s) : s[i] \in Digits

DropFirst(s, k) == SubSeq(s, k + 1, Len(s))

\* the part of /^(\d{1,2}):?(\d{0,2})$/ after the hours: the minutes digits
AfterColon(s) == IF Len(s) > 0 /\ s[1] = ":" THEN Tail(s) ELSE s

TailMatches(s) == Len(AfterColon(s)) <= 2 /\ AllDigits(AfterColon(s))

\* number of characters the greedy group (\d{1,2}) takes, 0 = no match
HoursLen(c) ==
  IF Len(c) >= 2 /\ c[1] \in Digits /\ c[2] \in Digits /\ TailMatches(DropFirst(c, 2))
    THEN 2
  ELSE IF Len(c) >= 1 /\ c[1] \in Digits /\ TailMatches(DropFirst(c, 1))
    THEN 1
  ELSE 0

\* formatTimeInput: canonical HH:MM, or the input unchanged when it does not
\* parse or is out of range
formatTimeInput(value) ==
  LET cleaned == SelectSeq(value, LAMBDA ch : ch \in Digits \cup {":"})
      k == HoursLen(cleaned)
  IN IF k = 0 THEN value
     ELSE LET h == ParseInt(SubSeq(cleaned, 1, k))
              minutes == AfterColon(DropFirst(cleaned, k))
              m == IF minutes = <<>> THEN 0 ELSE ParseInt(minutes)
          IN IF h > 23 \/ m > 59 THEN value
             ELSE PadStart2(h) \o <<":">> \o PadStart2(m)

\* String.prototype.trim
RECURSIVE trim(_)
trim(s) ==
  IF s = <<>> THEN s
  ELSE IF s[1] = " " THEN trim(Tail(s))
  ELSE IF s[Len(s)] = " " THEN trim(SubSeq(s, 1, Len(s) - 1))
  ELSE s

\* saveWorklog: e.issueKey && e.issueKey.trim() !== ''
\* mutant: every entry counts as valid
IsValidEntry_All(e) ==
  TRUE

IsValidEntry(e) ==
  e.issueKey # <<>> /\ trim(e.issueKey) # <<>>

\* transformEntryToBackend: the four fields sent on PUT
transformEntryToBackend(e) ==
  [issue_key |-> e.issueKey, start_time |-> e.startTime,
   end_time |-> e.endTime, description |-> e.description]

MapSeq(s, Op(_)) == [i \in 1..Len(s) |-> Op(s[i])]

\* saveWorklog: entries.map(e => ({...e, startTime: formatTimeInput(..), ..}))
FormatEntry(e) ==
  [e EXCEPT !.startTime = formatTimeInput(e.startTime),
            !.endTime = formatTimeInput(e.endTime)]

FormattedEntries(entries) == MapSeq(entries, FormatEntry)

ValidEntries(entries) == SelectSeq(FormattedEntries(entries), IsValidEntry)

\* { ...entry, ...updates }
ApplyUpdates(e, updates) ==
  [f \in DOMAIN e |-> IF f \in DOMAIN updates THEN updates[f] ELSE e[f]]

HasId(entries, id) == \E i \in 1..Len(entries) : entries[i].id = id

EntryById(entries, id) ==
  entries[CHOOSE i \in 1..Len(entries) :
            entries[i].id = id /\ \A j \in 1..(i - 1) : entries[j].id # id]

\* [a, b].filter(Boolean).join(' ')
JoinDescriptions(a, b) ==
  IF a = <<>> THEN b ELSE IF b = <<>> THEN a ELSE a \o <<" ">> \o b

\* Map.prototype.set on an insertion-ordered map keyed by issueKey
MapSet(m, e) ==
  IF \E i \in 1..Len(m) : m[i].issueKey = e.issueKey
    THEN [i \in 1..Len(m) |-> IF m[i].issueKey = e.issueKey THEN e ELSE m[i]]
    ELSE Append(m, e)

MapHas(m, key) == \E i \in 1..Len(m) : m[i].issueKey = key

MapGet(m, key) == m[CHOOSE i \in 1..Len(m) : m[i].issueKey = key]

\* mergeEntries, first loop: the current entries with a truthy issueKey
RECURSIVE SeedMap(_, _)
SeedMap(m, existing) ==
  IF existing = <<>> THEN m
  ELSE SeedMap(IF Head(existing).issueKey # <<>> THEN MapSet(m, Head(existing)) ELSE m,
               Tail(existing))

\* mergeEntries, second loop: a known key accumulates the description
MergeExisting(existing, src) ==
  [existing EXCEPT
     !.description = JoinDescriptions(existing.description, src.description)]

\* mergeEntries, second loop: a new key is inserted under a generated id
\* mutant: the source's logged state is copied with the entry
MergeNew_KeepsLogged(src, id) ==
  [src EXCEPT !.id = id]

MergeNew(src, id) ==
  [src EXCEPT !.id = id, !.loggedToJira = FALSE, !.jiraWorklogId = 0]

RECURSIVE MergeSource(_, _, _)
MergeSource(m, source, id) ==
  IF source = <<>> THEN m
  ELSE LET e == Head(source) IN
       IF e.issueKey = <<>> THEN MergeSource(m, Tail(source), id)
       ELSE IF MapHas(m, e.issueKey)
         THEN MergeSource(MapSet(m, MergeExisting(MapGet(m, e.issueKey), e)),
                          Tail(source), id)
         ELSE MergeSource(MapSet(m, MergeNew(e, id)), Tail(source), id + 1)

\* number of ids mergeEntries generates
RECURSIVE NewKeys(_, _)
NewKeys(m, source) ==
  IF source = <<>> THEN 0
  ELSE LET e == Head(source) IN
       IF e.issueKey = <<>> \/ MapHas(m, e.issueKey) THEN NewKeys(m, Tail(source))
       ELSE 1 + NewKeys(MapSet(m, e), Tail(source))

\* mergeEntries: Array.from(mergedMap.values())
MergedEntries(existing, source, id) ==
  MergeSource(SeedMap(<<>>, existing), source, id)

(***************************************************************************)
(* Part II - inputs                                                        *)
(***************************************************************************)
\* new Date() when the page is opened, and the days the date buttons can reach
Today == 10

Days == (Today - MaxNav)..(Today + MaxNav)

\* format(date, 'yyyy-MM-dd') for a day of January 2024
DateKeyOf(day) ==
  <<"2", "0", "2", "4", "-", "0", "1", "-">> \o PadStart2(day)

\* dateKey of the current render
DateKey == DateKeyOf(selectedDate)

\* format(now, 'HH:mm') and the same one hour earlier
CurrentTime == <<"1", "0", ":", "0", "0">>
OneHourAgo == <<"0", "9", ":", "0", "0">>

\* what the user may leave in a field on blur
IssueKeyInputs == {<<" ">>, <<"A">>}
StartTimeInputs == {<<"8">>}
EndTimeInputs == {<<"9", ":", "7", "5">>}
DescriptionInputs == {<<"x">>}

UiUpdates ==
  [issueKey : IssueKeyInputs] \cup [startTime : StartTimeInputs]
    \cup [endTime : EndTimeInputs] \cup [description : DescriptionInputs]

\* startTime.split(':'): the text before and after the first colon
ColonAt(s) == CHOOSE i \in 1..Len(s) : s[i] = ":" /\ \A j \in 1..(i - 1) : s[j] # ":"

SplitH(s) == SubSeq(s, 1, ColonAt(s) - 1)

SplitM(s) == SubSeq(s, ColonAt(s) + 1, Len(s))

MathMax(a, b) == IF a >= b THEN a ELSE b

\* calculateDuration
\* mutant: the difference is returned unclamped
calculateDuration_Unclamped(startTime, endTime) ==
  LET startMinutes == ParseInt(SplitH(startTime)) * 60 + ParseInt(SplitM(startTime))
      endMinutes == ParseInt(SplitH(endTime)) * 60 + ParseInt(SplitM(endTime))
  IN endMinutes - startMinutes

calculateDuration(startTime, endTime) ==
  LET startMinutes == ParseInt(SplitH(startTime)) * 60 + ParseInt(SplitM(startTime))
      endMinutes == ParseInt(SplitH(endTime)) * 60 + ParseInt(SplitM(endTime))
  IN MathMax(0, endMinutes - startMinutes)

\* HH:MM of an hour and a minute
TimeOf(h, m) == PadStart2(h) \o <<":">> \o PadStart2(m)

\* hours and minutes of the times the duration column is computed for
HourInputs == {0, 9, 10, 23}
MinuteInputs == {0, 30, 59}

TimeInputs == {TimeOf(h, m) : h \in HourInputs, m \in MinuteInputs}

\* the duration cell of a row: calculateDuration(entry.startTime, entry.endTime)
CalculateDuration(start, end) ==
  /\ calc' = [startTime |-> start, endTime |-> end,
              minutes |-> calculateDuration(start, end)]
  /\ UNCHANGED <<selectedDate, loads, remote, navs>>

\* a row of worklog_entries as the backend returns it (BackendWorklogEntry)
BackendEntry(id, key, desc, logged) ==
  [id |-> id, issue_key |-> key, start_time |-> OneHourAgo, end_time |-> CurrentTime,
   description |-> desc, logged_to_jira |-> logged,
   jira_worklog_id |-> IF logged THEN 5 ELSE 0]

\* value || '' on a string
OrEmpty(value) == IF value = <<>> THEN <<>> ELSE value

\* transformEntryFromBackend (0 stands for null in jiraWorklogId)
\* mutant: start_time and end_time are read into each other's field
transformEntryFromBackend_TimesSwapped(b) ==
  [id |-> b.id,
   issueKey |-> OrEmpty(b.issue_key),
   startTime |-> OrEmpty(b.end_time),
   endTime |-> OrEmpty(b.start_time),
   description |-> OrEmpty(b.description),
   loggedToJira |-> (b.logged_to_jira \/ FALSE),
   jiraWorklogId |-> IF b.jira_worklog_id = 0 THEN 0 ELSE b.jira_worklog_id]

transformEntryFromBackend(b) ==
  [id |-> b.id,
   issueKey |-> OrEmpty(b.issue_key),
   startTime |-> OrEmpty(b.start_time),
   endTime |-> OrEmpty(b.end_time),
   description |-> OrEmpty(b.description),
   loggedToJira |-> (b.logged_to_jira \/ FALSE),
   jiraWorklogId |-> IF b.jira_worklog_id = 0 THEN 0 ELSE b.jira_worklog_id]

\* entries as apiClient.getWorklog returns them
RemoteEntry(id, key, desc, logged) ==
  transformEntryFromBackend(BackendEntry(id, key, desc, logged))

\* what the remote store may hold for today when the page is opened
RemoteDays ==
  {<<>>,
   <<BackendEntry(104, <<"B">>, <<>>, FALSE)>>,
   <<BackendEntry(100, <<"A">>, <<"x">>, TRUE), BackendEntry(104, <<"B">>, <<>>, FALSE)>>,
   <<BackendEntry(104, <<"B">>, <<>>, FALSE), BackendEntry(105, <<"B">>, <<"z">>, FALSE)>>}

\* what the remote store holds for another day
OtherDay(day) ==
  IF day % 2 = 1 THEN <<BackendEntry(300 + day, <<"C">>, <<>>, FALSE)>> ELSE <<>>

\* what the remote store may hold for an earlier date
SourceDays ==
  {<<RemoteEntry(101, <<"A">>, <<"y">>, TRUE)>>,
   <<RemoteEntry(102, <<"B">>, <<>>, FALSE), RemoteEntry(103, <<"A">>, <<"y">>, FALSE)>>}

\* jira_worklog_id of a successful log-to-jira response
JiraWorklogIds == {7}

RemoveAt(s, i) == SubSeq(s, 1, i - 1) \o SubSeq(s, i + 1, Len(s))

EntriesOf(wl) == IF wl = Null THEN <<>> ELSE wl.entries

(***************************************************************************)
(* Part II - Worklog Reconciler operations                                 *)
(***************************************************************************)
WorklogInit ==
  /\ worklog = Null
  /\ loading = TRUE
  /\ jiraConfig = "null"
  /\ loggingEntryId = 0
  /\ saves = <<>>
  /\ logs = <<>>
  /\ prefills = <<>>
  /\ nextId = 1
  /\ actions = 0
  /\ lastToast = {}
  /\ bulk = "idle"

\* the page is opened on today's date and the effect has called fetchWorklog;
\* the store holds one of `days` for today
NavInit(days) ==
  /\ selectedDate = Today
  /\ loads = <<[day |-> Today, bulk |-> FALSE]>>
  /\ remote \in {[d \in Days |-> IF d = Today THEN rows ELSE OtherDay(d)] :
                    rows \in days}
  /\ navs = 0
  /\ calc = [startTime |-> OneHourAgo, endTime |-> CurrentTime, minutes |-> 60]

\* bulkLogToJira resumes when the fetchWorklog it awaits has returned:
\* finally setIsBulkLogging(false)
AfterFetchWorklog(load) == IF load.bulk THEN "idle" ELSE bulk

\* fetchWorklog, try branch: setWorklog(data) with the day the server holds
\* for the dateKey of the call; finally setLoading(false)
LoadOk(i) ==
  /\ i \in 1..Len(loads)
  /\ worklog' = [date |-> DateKeyOf(loads[i].day),
                 entries |-> MapSeq(remote[loads[i].day], transformEntryFromBackend)]
  /\ loading' = FALSE
  /\ bulk' = AfterFetchWorklog(loads[i])
  /\ loads' = RemoveAt(loads, i)
  /\ lastToast' = {}
  /\ UNCHANGED <<jiraConfig, loggingEntryId, saves, logs, prefills, nextId, actions>>
  /\ UNCHANGED <<selectedDate, remote, navs, calc>>

\* fetchWorklog, catch branch: setWorklog({ date: dateKey, entries: [] })
\* mutant: the state is left as it was
FallbackWorklog_Stale(day) ==
  worklog

FallbackWorklog(day) ==
  [date |-> DateKeyOf(day), entries |-> <<>>]

\* fetchWorklog, catch branch: an empty day for the dateKey of the call
LoadFail(i) ==
  /\ i \in 1..Len(loads)
  /\ worklog' = FallbackWorklog(loads[i].day)
  /\ loading' = FALSE
  /\ bulk' = AfterFetchWorklog(loads[i])
  /\ loads' = RemoveAt(loads, i)
  /\ lastToast' = {}
  /\ UNCHANGED <<jiraConfig, loggingEntryId, saves, logs, prefills, nextId, actions>>
  /\ UNCHANGED <<selectedDate, remote, navs, calc>>

\* fetchJiraConfig: the fetched status, or "not configured" on failure
JiraConfigDone(c) ==
  /\ jiraConfig = "null"
  /\ jiraConfig' = c
  /\ lastToast' = {}
  /\ UNCHANGED <<worklog, loading, loggingEntryId, saves, logs, prefills, nextId, actions>>

\* saveWorklog up to its await: with no valid entry the formatted list is set
\* locally; otherwise the valid entries are sent and the call is awaited.
\* cont is what the caller does once saveWorklog has returned; marks names
\* the entry and the JIRA worklog id when the list comes from logToJira.
NoMarks == [id |-> 0, jid |-> 0]

\* saveWorklog, no valid entry: setWorklog({ date: dateKey, entries: formattedEntries })
\* mutant: the list is stored as it was passed in, times not normalized
LocalEntries_Unformatted(entries) ==
  entries

LocalEntries(entries) ==
  FormattedEntries(entries)

SaveWorklog(entries, cont, marks) ==
  IF ValidEntries(entries) = <<>>
    THEN /\ worklog' = [date |-> DateKey, entries |-> LocalEntries(entries)]
         /\ saves' = saves
    ELSE /\ worklog' = worklog
         /\ saves' = Append(saves,
              [entries |-> FormattedEntries(entries),
               payload |-> MapSeq(ValidEntries(entries), transformEntryToBackend),
               before |-> worklog,
               cont |-> cont,
               marks |-> marks,
               day |-> selectedDate])

\* updateEntry as a function of the worklog its closure sees
UpdatedEntries(wl, id, updates) ==
  MapSeq(wl.entries, LAMBDA e : IF e.id = id THEN ApplyUpdates(e, updates) ELSE e)

\* addEntry: a draft chained to the last entry, local state only
AddEntry ==
  /\ ~loading
  /\ actions < MaxActions
  /\ actions' = actions + 1
  /\ LET entries == EntriesOf(worklog)
         startTime == IF entries # <<>> THEN entries[Len(entries)].endTime
                      ELSE OneHourAgo
         newEntry == [id |-> nextId, issueKey |-> <<>>, startTime |-> startTime,
                      endTime |-> CurrentTime, description |-> <<>>,
                      loggedToJira |-> FALSE, jiraWorklogId |-> 0]
     IN worklog' = [date |-> DateKey, entries |-> Append(entries, newEntry)]
  /\ nextId' = nextId + 1
  /\ lastToast' = {}
  /\ UNCHANGED <<loading, jiraConfig, loggingEntryId, saves, logs, prefills>>

\* updateEntry from a field's onBlur (the inputs of a logged row are disabled)
UpdateEntry(id, updates) ==
  /\ ~loading
  /\ worklog # Null
  /\ HasId(worklog.entries, id)
  /\ ~EntryById(worklog.entries, id).loggedToJira
  /\ actions < MaxActions
  /\ actions' = actions + 1
  /\ SaveWorklog(UpdatedEntries(worklog, id, updates), "none", NoMarks)
  /\ lastToast' = {}
  /\ UNCHANGED <<loading, jiraConfig, loggingEntryId, logs, prefills, nextId>>

\* deleteEntry: a draft is removed locally, anything else goes through saveWorklog
IsDraft(e) == e.issueKey = <<>> \/ trim(e.issueKey) = <<>>

Remaining(entries, id) == SelectSeq(entries, LAMBDA e : e.id # id)

DeleteEntry(id) ==
  /\ ~loading
  /\ worklog # Null
  /\ HasId(worklog.entries, id)
  /\ ~EntryById(worklog.entries, id).loggedToJira
  /\ actions < MaxActions
  /\ actions' = actions + 1
  /\ IF IsDraft(EntryById(worklog.entries, id))
       THEN /\ worklog' = [date |-> DateKey, entries |-> Remaining(worklog.entries, id)]
            /\ saves' = saves
       ELSE SaveWorklog(Remaining(worklog.entries, id), "none", NoMarks)
  /\ lastToast' = {}
  /\ UNCHANGED <<loading, jiraConfig, loggingEntryId, logs, prefills, nextId>>

\* logToJira up to its await; the call keeps the worklog of the render it
\* was started from (updateEntry is the closure of that render)
LogToJira(id) ==
  /\ ~loading
  /\ worklog # Null
  /\ HasId(worklog.entries, id)
  /\ ~EntryById(worklog.entries, id).loggedToJira
  /\ loggingEntryId # id
  /\ actions < MaxActions
  /\ actions' = actions + 1
  /\ LET e == EntryById(worklog.entries, id) IN
       IF e.issueKey = <<>> \/ e.startTime = <<>> \/ e.endTime = <<>>
         THEN /\ lastToast' = {"Validation Error"}
              /\ UNCHANGED <<logs, loggingEntryId>>
       ELSE IF jiraConfig # "configured"
         THEN /\ lastToast' = {"JIRA Not Configured"}
              /\ UNCHANGED <<logs, loggingEntryId>>
       ELSE /\ logs' = Append(logs, [id |-> id, wl |-> worklog])
            /\ loggingEntryId' = id
            /\ lastToast' = {}
  /\ UNCHANGED <<worklog, loading, jiraConfig, saves, prefills, nextId>>

\* logToJira, result.success: updateEntry(id, {loggedToJira, jiraWorklogId})
LogOk(i, jid) ==
  /\ i \in 1..Len(logs)
  /\ logs' = RemoveAt(logs, i)
  /\ loggingEntryId' = 0
  /\ SaveWorklog(UpdatedEntries(logs[i].wl, logs[i].id,
                   [loggedToJira |-> TRUE, jiraWorklogId |-> jid]), "none",
                 [id |-> logs[i].id, jid |-> jid])
  /\ lastToast' = {"Logged to JIRA"}
  /\ UNCHANGED <<loading, jiraConfig, prefills, nextId, actions>>

\* logToJira, structured failure or transport failure: a toast, no update
LogFail(i) ==
  /\ i \in 1..Len(logs)
  /\ logs' = RemoveAt(logs, i)
  /\ loggingEntryId' = 0
  /\ lastToast' = {"JIRA Error"}
  /\ UNCHANGED <<worklog, loading, jiraConfig, saves, prefills, nextId, actions>>

\* maxWeeksBack
MaxWeeksBack == 4

\* the date the k-th getWorklog call of prefillFromPrevious asks for:
\* subWeeks(currentDate, k) in the loop, subDays(currentDate, 1) after it
\* mutant: the previous day is asked first, the weeks after it
DateOfStep_DayFirst(k) ==
  IF k = 1 THEN [unit |-> "days", back |-> 1]
  ELSE [unit |-> "weeks", back |-> k - 1]

DateOfStep(k) ==
  IF k <= MaxWeeksBack THEN [unit |-> "weeks", back |-> k]
  ELSE [unit |-> "days", back |-> 1]

\* prefillFromPrevious up to its first await; step k <= MaxWeeksBack fetches
\* k weeks back, step MaxWeeksBack + 1 fetches the previous day
Prefill ==
  /\ ~loading
  /\ actions < MaxActions
  /\ actions' = actions + 1
  /\ prefills' = Append(prefills,
       [step |-> 1, wl |-> worklog, fetched |-> <<DateOfStep(1)>>])
  /\ lastToast' = {}
  /\ UNCHANGED <<worklog, loading, jiraConfig, loggingEntryId, saves, logs, nextId>>

\* the fetched date has no entries: next date, or 'No Data' after the last
PrefillEmpty(i) ==
  /\ i \in 1..Len(prefills)
  /\ IF prefills[i].step <= MaxWeeksBack
       THEN /\ prefills' = [prefills EXCEPT
                 ![i].step = @ + 1,
                 ![i].fetched = Append(@, DateOfStep(prefills[i].step + 1))]
            /\ lastToast' = {}
       ELSE /\ prefills' = RemoveAt(prefills, i)
            /\ lastToast' = {"No Data"}
  /\ UNCHANGED <<worklog, loading, jiraConfig, loggingEntryId, saves, logs, nextId, actions>>

\* the fetched date has entries: mergeEntries(data.entries), then saveWorklog;
\* 'Prefilled' is shown when mergeEntries has returned
PrefillData(i, source) ==
  /\ i \in 1..Len(prefills)
  /\ prefills' = RemoveAt(prefills, i)
  /\ LET existing == EntriesOf(prefills[i].wl)
         merged == MergedEntries(existing, source, nextId)
     IN /\ SaveWorklog(merged, "prefilled", NoMarks)
        /\ nextId' = nextId + NewKeys(SeedMap(<<>>, existing), source)
        /\ lastToast' = IF ValidEntries(merged) = <<>> THEN {"Prefilled"} ELSE {}
  /\ UNCHANGED <<loading, jiraConfig, loggingEntryId, logs, actions>>

\* apiClient.getWorklog throws: 'Prefill Failed'
PrefillError(i) ==
  /\ i \in 1..Len(prefills)
  /\ prefills' = RemoveAt(prefills, i)
  /\ lastToast' = {"Prefill Failed"}
  /\ UNCHANGED <<worklog, loading, jiraConfig, loggingEntryId, saves, logs, nextId, actions>>

\* toasts of the caller that awaited saveWorklog
ContToast(cont) == IF cont = "prefilled" THEN {"Prefilled"} ELSE {}

\* identifier the remote store assigns to the k-th row of a replaced day
ServerId(k) == 200 + k

\* PUT /api/worklog/{date}: the day's rows are replaced by one row per
\* payload entry, each under an identifier the server assigns; the logged
\* state the client holds for the entry is taken to be the server's as well
ReplacedDay(s) ==
  LET valid == SelectSeq(s.entries, IsValidEntry)
  IN [k \in 1..Len(s.payload) |->
        [id |-> ServerId(k),
         issue_key |-> s.payload[k].issue_key,
         start_time |-> s.payload[k].start_time,
         end_time |-> s.payload[k].end_time,
         description |-> s.payload[k].description,
         logged_to_jira |-> valid[k].loggedToJira,
         jira_worklog_id |-> valid[k].jiraWorklogId]]

\* saveWorklog after apiClient.saveWorklog resolved: the response is dropped,
\* setWorklog({ date: dateKey, entries: formattedEntries })
SaveOk(i) ==
  /\ i \in 1..Len(saves)
  /\ saves' = RemoveAt(saves, i)
  /\ remote' = [remote EXCEPT ![saves[i].day] = ReplacedDay(saves[i])]
  /\ worklog' = [date |-> DateKeyOf(saves[i].day), entries |-> saves[i].entries]
  /\ lastToast' = ContToast(saves[i].cont)
  /\ UNCHANGED <<loading, jiraConfig, loggingEntryId, logs, prefills, nextId, actions>>
  /\ UNCHANGED <<selectedDate, loads, navs, calc>>

\* saveWorklog, catch branch: the worklog state is not set
\* mutant: the formatted entries are applied although the call failed
WorklogAfterFailedSave_Optimistic(s) ==
  [date |-> DateKey, entries |-> s.entries]

WorklogAfterFailedSave(s) ==
  worklog

\* saveWorklog after apiClient.saveWorklog rejected: toast.error('Save Failed')
SaveFail(i) ==
  /\ i \in 1..Len(saves)
  /\ saves' = RemoveAt(saves, i)
  /\ worklog' = WorklogAfterFailedSave(saves[i])
  /\ lastToast' = {"Save Failed"} \cup ContToast(saves[i].cont)
  /\ UNCHANGED <<loading, jiraConfig, loggingEntryId, logs, prefills, nextId, actions>>

\* bulkLogToJira: entries the bulk endpoint would log, !e.loggedToJira && e.issueKey
\* mutant: the logged flag is not looked at
EligibleForBulk_AnyKeyed(e) ==
  e.issueKey # <<>>

EligibleForBulk(e) ==
  ~e.loggedToJira /\ e.issueKey # <<>>

\* bulkLogToJira up to its await (the button is disabled while isBulkLogging)
BulkLogToJira ==
  /\ ~loading
  /\ bulk = "idle"
  /\ actions < MaxActions
  /\ actions' = actions + 1
  /\ IF jiraConfig # "configured"
       THEN /\ lastToast' = {"JIRA Not Configured"}
            /\ bulk' = bulk
     ELSE IF SelectSeq(EntriesOf(worklog), EligibleForBulk) = <<>>
       THEN /\ lastToast' = {"No Entries"}
            /\ bulk' = bulk
     ELSE /\ lastToast' = {}
          /\ bulk' = "calling"
  /\ UNCHANGED <<worklog, loading, jiraConfig, loggingEntryId, saves, logs,
                 prefills, nextId>>

\* what the bulk endpoint may answer: total_issues = 0, all logged, some
\* logged, none logged
BulkResults == {"none", "all", "partial", "failed"}

BulkToast(result) ==
  CASE result = "none" -> {"No Entries"}
    [] result = "all" -> {"Logged to JIRA"}
    [] result = "partial" -> {"Partial Success"}
    [] OTHER -> {"JIRA Error"}

\* POST /api/worklog/{date}/bulk-log-to-jira: the rows the endpoint logged
\* are marked in the store, all unlogged rows on full success and the first
\* of them on partial success
BulkLogged(rows, result) ==
  LET open(k) == ~rows[k].logged_to_jira /\ rows[k].issue_key # <<>>
      hit(k) == /\ open(k)
                /\ \/ result = "all"
                   \/ result = "partial" /\ \A j \in 1..(k - 1) : ~open(j)
  IN [k \in 1..Len(rows) |->
        IF hit(k)
          THEN [rows[k] EXCEPT !.logged_to_jira = TRUE, !.jira_worklog_id = 7]
          ELSE rows[k]]

\* bulkLogToJira after the bulk endpoint answered: the toast of the outcome,
\* then await fetchWorklog(), which starts with setLoading(true)
BulkDone(result) ==
  /\ bulk = "calling"
  /\ lastToast' = BulkToast(result)
  /\ loading' = TRUE
  /\ loads' = Append(loads, [day |-> selectedDate, bulk |-> TRUE])
  /\ remote' = [remote EXCEPT ![selectedDate] = BulkLogged(@, result)]
  /\ bulk' = "reloading"
  /\ UNCHANGED <<worklog, jiraConfig, loggingEntryId, saves, logs, prefills,
                 nextId, actions>>
  /\ UNCHANGED <<selectedDate, navs, calc>>

\* bulkLogToJira, apiClient.bulkLogToJira rejected: catch shows 'JIRA Error',
\* finally setIsBulkLogging(false); the reload inside the try block is skipped
BulkError ==
  /\ bulk = "calling"
  /\ lastToast' = {"JIRA Error"}
  /\ bulk' = "idle"
  /\ UNCHANGED <<worklog, loading, jiraConfig, loggingEntryId, saves, logs,
                 prefills, nextId, actions>>

\* the effect after a date change: fetchWorklog is called when dateKey differs
\* from the one of the last render, and starts with setLoading(true)
DateChanged(day) ==
  /\ navs < MaxNav
  /\ navs' = navs + 1
  /\ day \in Days
  /\ selectedDate' = day
  /\ IF day # selectedDate
       THEN /\ loading' = TRUE
            /\ loads' = Append(loads, [day |-> day, bulk |-> FALSE])
       ELSE UNCHANGED <<loading, loads>>
  /\ UNCHANGED <<worklog, jiraConfig, loggingEntryId, saves, logs, prefills,
                 nextId, actions, lastToast, bulk, remote, calc>>

\* setSelectedDate((prev) => subDays(prev, 1))
goToPreviousDay == DateChanged(selectedDate - 1)

\* setSelectedDate((prev) => { next.setDate(next.getDate() + 1); return next })
goToNextDay == DateChanged(selectedDate + 1)

\* setSelectedDate(new Date())
goToToday == DateChanged(Today)

\* the page after construction: module state of client.ts and the hooks of Worklog
Init == GuardInit /\ WorklogInit /\ NavInit(RemoteDays)

\* the same with nothing stored for today: the start of the runs in which the
\* Worklog component does not act
InitEmptyStore == GuardInit /\ WorklogInit /\ NavInit({<<>>})

\* ids of the entries on display
Ids == {EntriesOf(worklog)[j].id : j \in 1..Len(EntriesOf(worklog))}

WorklogNext ==
  \/ \E i \in 1..Len(loads) : LoadOk(i) /\ UNCHANGED gvars
  \/ \E i \in 1..Len(loads) : LoadFail(i) /\ UNCHANGED gvars
  \/ \E c \in {"configured", "unconfigured"} : JiraConfigDone(c) /\ UNCHANGED <<gvars, bulk, nvars>>
  \/ AddEntry /\ UNCHANGED <<gvars, bulk, nvars>>
  \/ \E id \in Ids, u \in UiUpdates : UpdateEntry(id, u) /\ UNCHANGED <<gvars, bulk, nvars>>
  \/ \E id \in Ids : DeleteEntry(id) /\ UNCHANGED <<gvars, bulk, nvars>>
  \/ \E id \in Ids : LogToJira(id) /\ UNCHANGED <<gvars, bulk, nvars>>
  \/ \E i \in 1..Len(logs), jid \in JiraWorklogIds : LogOk(i, jid) /\ UNCHANGED <<gvars, bulk, nvars>>
  \/ \E i \in 1..Len(logs) : LogFail(i) /\ UNCHANGED <<gvars, bulk, nvars>>
  \/ Prefill /\ UNCHANGED <<gvars, bulk, nvars>>
  \/ \E i \in 1..Len(prefills) : PrefillEmpty(i) /\ UNCHANGED <<gvars, bulk, nvars>>
  \/ \E i \in 1..Len(prefills), src \in SourceDays : PrefillData(i, src) /\ UNCHANGED <<gvars, bulk, nvars>>
  \/ \E i \in 1..Len(prefills) : PrefillError(i) /\ UNCHANGED <<gvars, bulk, nvars>>
  \/ \E i \in 1..Len(saves) : SaveOk(i) /\ UNCHANGED <<gvars, bulk>>
  \/ \E i \in 1..Len(saves) : SaveFail(i) /\ UNCHANGED <<gvars, bulk, nvars>>
  \/ BulkLogToJira /\ UNCHANGED <<gvars, nvars>>
  \/ \E result \in BulkResults : BulkDone(result) /\ UNCHANGED gvars
  \/ BulkError /\ UNCHANGED <<gvars, nvars>>

WorklogSpec == Init /\ [][WorklogNext]_vars

\* date changes and the loads they start, answered in any order
NavNext ==
  \/ goToPreviousDay /\ UNCHANGED gvars
  \/ goToNextDay /\ UNCHANGED gvars
  \/ goToToday /\ UNCHANGED gvars
  \/ \E i \in 1..Len(loads) : LoadOk(i) /\ UNCHANGED gvars
  \/ \E i \in 1..Len(loads) : LoadFail(i) /\ UNCHANGED gvars

NavSpec == Init /\ [][NavNext]_vars

\* the duration column: calculateDuration on the times of an entry
DurationNext ==
  \E start \in TimeInputs, end \in TimeInputs :
    CalculateDuration(start, end) /\ UNCHANGED <<gvars, wvars>>

DurationSpec == InitEmptyStore /\ [][DurationNext]_vars

\* the operations on the entries with every remote call succeeding
WorklogOkNext ==
  \/ \E i \in 1..Len(loads) : LoadOk(i) /\ UNCHANGED gvars
  \/ AddEntry /\ UNCHANGED <<gvars, bulk, nvars>>
  \/ \E id \in Ids, u \in UiUpdates : UpdateEntry(id, u) /\ UNCHANGED <<gvars, bulk, nvars>>
  \/ \E id \in Ids : DeleteEntry(id) /\ UNCHANGED <<gvars, bulk, nvars>>
  \/ Prefill /\ UNCHANGED <<gvars, bulk, nvars>>
  \/ \E i \in 1..Len(prefills) : PrefillEmpty(i) /\ UNCHANGED <<gvars, bulk, nvars>>
  \/ \E i \in 1..Len(prefills), src \in SourceDays : PrefillData(i, src) /\ UNCHANGED <<gvars, bulk, nvars>>
  \/ \E i \in 1..Len(saves) : SaveOk(i) /\ UNCHANGED <<gvars, bulk>>

WorklogOkSpec == Init /\ [][WorklogOkNext]_vars

GuardNext ==
  \/ \E r \in Req, kind \in {"api", "logout"} : StartRequest(r, kind) /\ UNCHANGED <<wvars, nvars>>
  \/ \E r \in Req, status \in Outcomes : \E body \in BodiesOf(status) :
       Finish(r, status, body) /\ UNCHANGED <<wvars, nvars>>
  \/ \E r \in Req : Lead(r) /\ UNCHANGED <<wvars, nvars>>
  \/ \E r \in Req, body \in BodiesOf(401) : LeadNoToken(r, body) /\ UNCHANGED <<wvars, nvars>>
  \/ \E r \in Req : Join(r) /\ UNCHANGED <<wvars, nvars>>
  \/ \E r \in Req : RefreshOk(r) /\ UNCHANGED <<wvars, nvars>>
  \/ \E r \in Req, body \in BodiesOf(401) : RefreshFail(r, body) /\ UNCHANGED <<wvars, nvars>>

GuardSpec == InitEmptyStore /\ [][GuardNext]_vars

\* what handling the answer to request r, or to the refresh call it started, does
Respond(r) ==
  \/ \E status \in Outcomes : \E body \in BodiesOf(status) :
       Finish(r, status, body) /\ UNCHANGED <<wvars, nvars>>
  \/ Lead(r) /\ UNCHANGED <<wvars, nvars>>
  \/ \E body \in BodiesOf(401) : LeadNoToken(r, body) /\ UNCHANGED <<wvars, nvars>>
  \/ Join(r) /\ UNCHANGED <<wvars, nvars>>
  \/ RefreshOk(r) /\ UNCHANGED <<wvars, nvars>>
  \/ \E body \in BodiesOf(401) : RefreshFail(r, body) /\ UNCHANGED <<wvars, nvars>>

\* every fetch settles: the browser answers each call with a response or with
\* a transport error, and the handler of the answer then runs
GuardFairSpec == GuardSpec /\ \A r \in Req : WF_vars(Respond(r))

(***************************************************************************)
(* Session Guard properties                                                *)
(***************************************************************************)
PastRefresh(r) == req[r].pc \in {"retry", "done"}

\* C1: at most one call to the token-refresh endpoint is in flight, for any
\* number of concurrent fetchAPI requests and any ordering of their responses
C1_AtMostOneRefreshInFlight ==
  /\ netRefresh <= 1
  /\ Cardinality({r \in Req : req[r].pc = "refreshing"}) <= 1

\* a refresh call is in flight while another request, answered 401, is suspended
C1_Witness ==
  \E a, b \in Req :
    /\ netRefresh = 1
    /\ req[a].pc = "refreshing"
    /\ req[b].pc = "waiting"

C3_WaitersReleased ==
  ~isRefreshing => \A r \in Req : req[r].pc # "waiting"

\* C4: a request sent with an access token surfaces a 401 failure only with
\* the access token, the refresh token and the user cleared from storage
C4_ClearedBeforeSurfacing ==
  [][\A r \in Req :
       (req[r].tok # 0 /\ req[r].result # "err401" /\ req'[r].result = "err401")
       => (accessToken' = 0 /\ refreshToken' = 0 /\ user' = 0)]_vars

\* C5: a request is sent at most twice and takes part in at most one refresh;
\* a 401 answer to the retry ends the request with an error
C5_AtMostOneRetry ==
  \A r \in Req :
    /\ req[r].sends <= 2
    /\ req[r].refreshes <= 1
    /\ req[r].sends = 2 => req[r].refreshes = 1
    /\ (req[r].sends = 2 /\ req[r].result # "none") => req[r].pc = "done"

\* a retry was answered 401 and the request ended with that error
C5_Witness ==
  \E r \in Req :
    /\ req[r].sends = 2
    /\ req[r].refreshes = 1
    /\ req[r].pc = "done"
    /\ req[r].result = "err401"

(***************************************************************************)
(* Worklog Reconciler properties                                           *)
(***************************************************************************)
HasVisibleChar(key) == \E i \in 1..Len(key) : key[i] # " "

NonEmptyKey(e) == e.issueKey # <<>>

VisibleKey(e) == HasVisibleChar(e.issueKey)

\* C6 (as stated): the payload of every save sent to the replace-whole-day
\* endpoint is exactly the entries of the saved list whose issueKey is
\* non-empty
C6_PayloadIsNonEmptyKeys_Original ==
  \A i \in 1..Len(saves) :
    saves[i].payload =
      MapSeq(SelectSeq(saves[i].entries, NonEmptyKey), transformEntryToBackend)

\* C6 (amended): the payload is exactly the entries whose issueKey has a
\* character other than white space; an entry with an empty or blank issueKey
\* is never sent, and a save with no such entry is not sent at all
C6_PayloadIsVisibleKeys ==
  \A i \in 1..Len(saves) :
    /\ saves[i].payload =
         MapSeq(SelectSeq(saves[i].entries, VisibleKey), transformEntryToBackend)
    /\ saves[i].payload # <<>>
    /\ \A j \in 1..Len(saves[i].payload) :
         HasVisibleChar(saves[i].payload[j].issue_key)

\* a save is awaiting its response whose list holds a draft or a blank-keyed
\* entry that is left out of the payload
C6_Witness ==
  \E i \in 1..Len(saves) :
    /\ Len(saves[i].payload) < Len(saves[i].entries)
    /\ \E j \in 1..Len(saves[i].entries) : saves[i].entries[j].issueKey = <<" ">>

C8_LoggedEntryImmutable ==
  [][\A id \in Ids :
       ( /\ HasId(EntriesOf(worklog), id)
         /\ EntryById(EntriesOf(worklog), id).loggedToJira
         /\ HasId(EntriesOf(worklog'), id) )
       => LET old == EntryById(EntriesOf(worklog), id)
              new == EntryById(EntriesOf(worklog'), id)
          IN /\ new.issueKey = old.issueKey
             /\ new.startTime = old.startTime
             /\ new.endTime = old.endTime
             /\ new.description = old.description]_vars

\* C9: deleteEntry on a draft removes it locally without a remote call;
\* deleteEntry on an entry with an issue key issues the remote save call with
\* the remaining entries, whatever remains
C9_DeleteReachesRemote ==
  [][\A id \in Ids :
       DeleteEntry(id) =>
         LET e == EntryById(worklog.entries, id)
             rest == Remaining(worklog.entries, id)
         IN /\ e.issueKey = <<>> =>
                 /\ saves' = saves
                 /\ worklog'.entries = rest
            /\ HasVisibleChar(e.issueKey) =>
                 /\ Len(saves') = Len(saves) + 1
                 /\ saves'[Len(saves')].payload =
                      MapSeq(SelectSeq(FormattedEntries(rest), VisibleKey),
                             transformEntryToBackend)]_vars

\* C10: a save never overlaps another save that is still awaiting its
\* remote response
C10_SavesSerialized ==
  Len(saves) <= 1

\* C10, the consequence drawn from it: a save that succeeds replaces the
\* DayWorklog it was computed from, so nothing done meanwhile is lost
C10_NoLostUpdate ==
  [][\A i \in 1..Len(saves) : SaveOk(i) => worklog = saves[i].before]_vars

AllKeysEmpty(entries) == \A j \in 1..Len(entries) : entries[j].issueKey = <<>>

\* C11: saveWorklog called (from updateEntry or deleteEntry) with a list in
\* which every entry has an empty issueKey issues no remote call and leaves
\* the DayWorklog equal to that list with start and end times normalized
C11_AllDraftSaveIsLocal ==
  [][/\ \A id \in Ids, u \in UiUpdates :
          (UpdateEntry(id, u) /\ AllKeysEmpty(UpdatedEntries(worklog, id, u)))
          => /\ saves' = saves
             /\ worklog' = [date |-> DateKey,
                            entries |-> MapSeq(UpdatedEntries(worklog, id, u), FormatEntry)]
     /\ \A id \in Ids :
          ( /\ DeleteEntry(id)
            /\ ~IsDraft(EntryById(worklog.entries, id))
            /\ AllKeysEmpty(Remaining(worklog.entries, id)) )
          => /\ saves' = saves
             /\ worklog' = [date |-> DateKey,
                            entries |-> MapSeq(Remaining(worklog.entries, id), FormatEntry)]]_vars

\* an all-draft day whose entry had its start time typed as "8" holds it as
\* 08:00, with no save awaiting a response
C11_Witness ==
  /\ worklog # Null
  /\ worklog.entries # <<>>
  /\ AllKeysEmpty(worklog.entries)
  /\ saves = <<>>
  /\ \E j \in 1..Len(worklog.entries) :
       worklog.entries[j].startTime = <<"0", "8", ":", "0", "0">>

Cleared == accessToken = 0 /\ refreshToken = 0 /\ user = 0

\* C12: when the sign-out call of logout settles, with success or failure,
\* the stored credentials are cleared and navigation to login is signalled;
\* once logout has been invoked a state with no access token, no refresh
\* token and no user stored is eventually reached
C12_LogoutClears ==
  /\ [][\A r \in Req :
         (req[r].kind = "logout" /\ req[r].pc # "done" /\ req'[r].pc = "done")
         => (accessToken' = 0 /\ refreshToken' = 0 /\ user' = 0 /\ navigated')]_vars
  /\ \A r \in Req :
       (req[r].kind = "logout" /\ req[r].pc \notin {"new", "done"})
         ~> (Cleared /\ navigated)

\* the sign-out call of logout has failed and the storage is empty
C12_Witness ==
  \E r \in Req :
    /\ req[r].kind = "logout"
    /\ req[r].pc = "done"
    /\ req[r].result \in {"err", "neterr", "err401"}
    /\ Cleared
    /\ navigated

\* C13: when the refresh call fails (transport error or non-OK response) the
\* stored credentials are cleared, navigation to login is signalled, the
\* caller gets no token (the 401 it had is surfaced without a resend) and no
\* refresh call is issued again for that failure
C13_RefreshFailureIsFatal ==
  [][\A r \in Req :
       (req[r].pc = "refreshing" /\ req'[r].pc = "done")
       => /\ accessToken' = 0 /\ refreshToken' = 0 /\ user' = 0
          /\ navigated'
          /\ req'[r].got = 0
          /\ req'[r].result = "err401"
          /\ req'[r].sends = 1
          /\ req'[r].refreshes = 1
          /\ netRefresh' = 0
          /\ \A q \in Req : req'[q].pc # "refreshing"]_vars

\* a refresh call has failed: its caller ended with the 401 it had, unsent
\* again, and the storage is empty
C13_Witness ==
  \E r \in Req :
    /\ req[r].role = "leader"
    /\ req[r].pc = "done"
    /\ req[r].sends = 1
    /\ req[r].result = "err401"
    /\ Cleared
    /\ navigated
    /\ netRefresh = 0

\* C14: a refresh attempted with no refresh token stored returns null and
\* issues no network call: the request that asked for it ends with the 401
\* it had, and no call to the refresh endpoint is added
C14_NoRefreshTokenNoCall ==
  [][\A r \in Req :
       ( /\ refreshToken = 0
         /\ req[r].pc \in {"sent", "retry"}
         /\ req'[r].pc \notin {"sent", "retry"} )
       => /\ netRefresh' = netRefresh
          /\ req'[r].pc # "refreshing"
          /\ req'[r].role = "nocall" =>
               /\ req'[r].pc = "done"
               /\ req'[r].got = 0
               /\ req'[r].sends = 1
               /\ req'[r].result = "err401"]_vars

\* a request sent with an access token was answered 401 after the storage
\* had been emptied: the refresh returned null without a call
C14_Witness ==
  \E r \in Req :
    /\ req[r].role = "nocall"
    /\ req[r].tok # 0
    /\ req[r].pc = "done"
    /\ req[r].result = "err401"
    /\ refreshToken = 0
    /\ netRefresh = 0

\* C15: a non-OK response whose body is JSON with a detail or message field
\* is surfaced as an error carrying that string; only a body that is not JSON
\* or has neither field is surfaced as the raw body plus the status code
C15_ErrorCarriesDetail ==
  [][\A r \in Req, status \in {401, 500}, body \in ErrorBodies :
       Finish(r, status, body) =>
         /\ body = "detail" => req'[r].error = "detail"
         /\ body = "message" => req'[r].error = "message"
         /\ body \in {"neither", "text"} => req'[r].error = "status+raw"]_vars

\* the dates prefillFromPrevious may ask for, in the order stated
PrefillOrder ==
  <<[unit |-> "weeks", back |-> 1], [unit |-> "weeks", back |-> 2],
    [unit |-> "weeks", back |-> 3], [unit |-> "weeks", back |-> 4],
    [unit |-> "days", back |-> 1]>>

\* C16: prefillFromPrevious asks for 1, 2, 3, 4 weeks back in that order and
\* for one day back only after all four were empty; the first non-empty date
\* ends the search and only its entries are merged; when the day back is
\* empty too 'No Data' is reported and the DayWorklog is left as it is
C16_PrefillOrder ==
  /\ [](\A i \in 1..Len(prefills) :
          /\ Len(prefills[i].fetched) \in 1..Len(PrefillOrder)
          /\ prefills[i].fetched = SubSeq(PrefillOrder, 1, Len(prefills[i].fetched)))
  /\ [][\A i \in 1..Len(prefills) :
         /\ \A src \in SourceDays :
              PrefillData(i, src) =>
                LET merged == MergedEntries(EntriesOf(prefills[i].wl), src, nextId)
                IN /\ prefills' = RemoveAt(prefills, i)
                   /\ \/ /\ Len(saves') = Len(saves) + 1
                         /\ saves'[Len(saves')].entries = FormattedEntries(merged)
                      \/ /\ saves' = saves
                         /\ worklog'.entries = FormattedEntries(merged)
         /\ PrefillEmpty(i) =>
              IF Len(prefills[i].fetched) < Len(PrefillOrder)
                THEN /\ Len(prefills') = Len(prefills)
                     /\ prefills'[i].fetched =
                          SubSeq(PrefillOrder, 1, Len(prefills[i].fetched) + 1)
                     /\ worklog' = worklog /\ saves' = saves
                ELSE /\ prefills' = RemoveAt(prefills, i)
                     /\ lastToast' = {"No Data"}
                     /\ worklog' = worklog /\ saves' = saves]_vars

\* a prefill found the four week dates empty and is asking for the day before
C16_Witness ==
  \E i \in 1..Len(prefills) :
    /\ Len(prefills[i].fetched) = 5
    /\ prefills[i].fetched[5] = [unit |-> "days", back |-> 1]

\* the list a prefill merge has just produced: handed to the remote save, or
\* stored locally when it has no valid entry
MergeResult ==
  IF Len(saves') > Len(saves) THEN saves'[Len(saves')].entries ELSE worklog'.entries

\* C17: in the prefill merge a source entry whose issueKey the current day
\* already has yields an entry that keeps the current entry's id, times and
\* logged state and whose description is the current and the source
\* description joined by one space (an empty side skipped); a source entry
\* with a new issueKey is inserted under a fresh local id with
\* loggedToJira = false and jiraWorklogId = null
C17_MergeKeepsAndInserts ==
  [][\A i \in 1..Len(prefills), src \in SourceDays :
       PrefillData(i, src) =>
         LET existing == EntriesOf(prefills[i].wl) IN
         \A k \in 1..Len(src) :
           IF \E j \in 1..Len(existing) : existing[j].issueKey = src[k].issueKey
             THEN \E j \in 1..Len(existing), n \in 1..Len(MergeResult) :
                    /\ existing[j].issueKey = src[k].issueKey
                    /\ MergeResult[n] =
                         [existing[j] EXCEPT !.description =
                            IF existing[j].description = <<>> THEN src[k].description
                            ELSE IF src[k].description = <<>> THEN existing[j].description
                            ELSE existing[j].description \o <<" ">> \o src[k].description]
             ELSE \E n \in 1..Len(MergeResult) :
                    /\ MergeResult[n] =
                         [src[k] EXCEPT !.id = MergeResult[n].id,
                                        !.loggedToJira = FALSE, !.jiraWorklogId = 0]
                    /\ MergeResult[n].id \in nextId..(nextId' - 1)
                    /\ \A j \in 1..Len(existing) : existing[j].id # MergeResult[n].id]_vars

\* a merge is being saved in which the logged entry of key A got the source
\* description appended and key B, new to the day, came in as an unlogged
\* entry under a generated id
C17_Witness ==
  \E i \in 1..Len(saves), a, b \in 1..2 :
    /\ saves[i].cont = "prefilled"
    /\ Len(saves[i].entries) = 2
    /\ saves[i].entries[a].id = 100
    /\ saves[i].entries[a].description = <<"x", " ", "y">>
    /\ saves[i].entries[a].loggedToJira
    /\ saves[i].entries[b].issueKey = <<"B">>
    /\ saves[i].entries[b].id < 100
    /\ ~saves[i].entries[b].loggedToJira
    /\ saves[i].entries[b].jiraWorklogId = 0

\* C18: once the bulk endpoint has been invoked, the day's entries are
\* reloaded from the remote store whatever the outcome of the call: full
\* success, partial success, full failure, or failure of the call itself
C18_BulkAlwaysReloads ==
  [][(bulk = "calling" /\ bulk' # "calling") => (bulk' = "reloading" /\ loading')]_vars

\* the day has no entry with a non-empty issueKey and loggedToJira = false
NoEligibleEntry ==
  \A j \in 1..Len(EntriesOf(worklog)) :
    EntriesOf(worklog)[j].loggedToJira \/ EntriesOf(worklog)[j].issueKey = <<>>

NoNetworkCall ==
  /\ bulk' = "idle"
  /\ UNCHANGED <<loading, saves, logs, prefills, worklog>>

MarkedLogged(entries, id, jid) ==
  /\ HasId(entries, id)
  /\ EntryById(entries, id).loggedToJira
  /\ EntryById(entries, id).jiraWorklogId = jid

\* C20: when the per-entry log endpoint returns success, the entry ends in
\* the DayWorklog with loggedToJira = true and the returned jiraWorklogId:
\* at once when the list is stored locally, else when the save that
\* updateEntry started has settled; when the endpoint returns a failure
\* or the transport fails, the DayWorklog is unchanged
C20_LogOutcomeInLocalState ==
  [][/\ \A i \in 1..Len(logs), jid \in JiraWorklogIds :
          (LogOk(i, jid) /\ saves' = saves)
          => MarkedLogged(EntriesOf(worklog'), logs[i].id, jid)
     /\ \A i \in 1..Len(saves) :
          (saves[i].marks.id # 0 /\ saves' = RemoveAt(saves, i))
          => MarkedLogged(EntriesOf(worklog'), saves[i].marks.id, saves[i].marks.jid)
     /\ \A i \in 1..Len(logs) :
          LogFail(i) => (worklog' = worklog /\ saves' = saves)]_vars

(***************************************************************************)
(* Properties of the identifiers, the loads and the remote store           *)
(***************************************************************************)
\* an id generateId made in this run
IsLocalId(id) == id \in 1..(nextId - 1)

\* C21: after a successful save every entry of the local DayWorklog with a
\* non-empty issueKey carries an identifier the server assigned, not the id
\* generateId gave it, so that logToJira addresses an id the store knows
C21_SavedEntriesCarryServerIds ==
  [][\A i \in 1..Len(saves) :
       SaveOk(i) =>
         \A j \in 1..Len(EntriesOf(worklog')) :
           worklog'.entries[j].issueKey # <<>> => ~IsLocalId(worklog'.entries[j].id)]_vars

\* C22: when the fetch of a date's entries fails, the local state is an empty
\* DayWorklog for that date, no error is reported and loading is cleared
C22_FailedLoadIsEmptyDay ==
  [][\A i \in 1..Len(loads) :
       LoadFail(i) =>
         /\ worklog' = [date |-> DateKeyOf(loads[i].day), entries |-> <<>>]
         /\ ~loading'
         /\ lastToast' = {}]_vars

\* a failed load has left an empty day for a date the store has rows for
C22_Witness ==
  /\ worklog # Null
  /\ worklog.entries = <<>>
  /\ ~loading
  /\ \E d \in Days : worklog.date = DateKeyOf(d) /\ remote[d] # <<>>

\* C23: for well-formed HH:MM times, calculateDuration(start, end) is
\* max(0, minutes(end) - minutes(start)): 0 when end equals start, 0 when end
\* is earlier than start, never negative
C23_DurationIsClampedDifference ==
  \A h1, h2 \in HourInputs, m1, m2 \in MinuteInputs :
    (calc.startTime = TimeOf(h1, m1) /\ calc.endTime = TimeOf(h2, m2)) =>
      LET diff == (h2 * 60 + m2) - (h1 * 60 + m1) IN
      /\ calc.minutes = (IF diff > 0 THEN diff ELSE 0)
      /\ calc.minutes >= 0
      /\ diff <= 0 => calc.minutes = 0

\* the duration of 09:30 - 09:00 has been computed
C23_Witness ==
  calc.startTime = TimeOf(9, 30) /\ calc.endTime = TimeOf(9, 0) /\ calc.minutes = 0

\* the four fields of a row that are sent on PUT
SentFields(b) ==
  [issue_key |-> b.issue_key, start_time |-> b.start_time,
   end_time |-> b.end_time, description |-> b.description]

\* C24: a remote entry transformed to local form and back to remote form has
\* the same issue_key, start_time, end_time and description, and carries
\* nothing else: id and the logged fields are not sent back
C24_RoundTripKeepsFourFields ==
  \A d \in Days : \A k \in 1..Len(remote[d]) :
    transformEntryToBackend(transformEntryFromBackend(remote[d][k])) = SentFields(remote[d][k])

\* a loaded row with a description is on its way back in the payload of a save
C24_Witness ==
  \E i \in 1..Len(saves), k \in 1..Len(remote[Today]) :
    /\ remote[Today][k].description # <<>>
    /\ HasId(saves[i].entries, remote[Today][k].id)
    /\ \E n \in 1..Len(saves[i].payload) : saves[i].payload[n] = SentFields(remote[Today][k])

\* C25: when the current day holds several entries with one non-empty
\* issueKey, the entry the prefill merge keeps for that key is the first of
\* them: its id, times and logged state are in the merged list
C25_FirstOccurrenceSeeds ==
  [][\A i \in 1..Len(prefills), src \in SourceDays :
       PrefillData(i, src) =>
         LET existing == EntriesOf(prefills[i].wl) IN
         \A j \in 1..Len(existing) :
           (/\ existing[j].issueKey # <<>>
            /\ \A h \in 1..(j - 1) : existing[h].issueKey # existing[j].issueKey)
           => \E n \in 1..Len(MergeResult) :
                /\ MergeResult[n].id = existing[j].id
                /\ MergeResult[n].loggedToJira = existing[j].loggedToJira
                /\ MergeResult[n].jiraWorklogId = existing[j].jiraWorklogId]_vars

\* no load, save or prefill is awaiting its response
Quiescent == loads = <<>> /\ saves = <<>> /\ prefills = <<>>

\* C26: after any sequence of addEntry, updateEntry, deleteEntry and prefill
\* whose remote calls all succeeded, the rows the store holds for the selected
\* date are the entries of the local DayWorklog that have an issueKey, field
\* by field and in the same order
C26_RemoteMatchesLocal ==
  Quiescent =>
    MapSeq(remote[selectedDate], SentFields)
      = MapSeq(SelectSeq(EntriesOf(worklog), IsValidEntry), transformEntryToBackend)

\* C27: whenever no load is pending, the DayWorklog on display is the one of
\* the selected date, in whatever order the responses arrived
C27_DisplayedDayIsSelected ==
  loads = <<>> => (worklog # Null /\ worklog.date = DateKey)

\* C28: once logout has cleared the stored credentials they stay cleared: a
\* refresh that was in flight when logout ran stores nothing afterwards
C28_LogoutStaysCleared ==
  (\E r \in Req : req[r].kind = "logout" /\ req[r].pc = "done") => Cleared

\* C29: prefillFromPrevious reports 'Prefilled' only when the merged list has
\* been applied; when the save of the merged list fails it does not
C29_NoSuccessAfterFailedSave ==
  ~({"Save Failed", "Prefilled"} \subseteq lastToast)

\* C30: every entry the current day held before the prefill merge, drafts and
\* entries sharing an issueKey included, is in the merged list under its id
C30_MergeKeepsCurrentEntries ==
  [][\A i \in 1..Len(prefills), src \in SourceDays :
       PrefillData(i, src) =>
         \A j \in 1..Len(EntriesOf(prefills[i].wl)) :
           HasId(MergeResult, EntriesOf(prefills[i].wl)[j].id)]_vars

\* C30, for drafts alone: an entry with an empty issueKey that the current
\* day held before the prefill merge is in the merged list
C30_MergeKeepsDrafts ==
  [][\A i \in 1..Len(prefills), src \in SourceDays :
       PrefillData(i, src) =>
         \A j \in 1..Len(EntriesOf(prefills[i].wl)) :
           EntriesOf(prefills[i].wl)[j].issueKey = <<>>
             => HasId(MergeResult, EntriesOf(prefills[i].wl)[j].id)]_vars

====
